---- MODULE Spec2Model ----
(***************************************************************************)
(* LabeledVideoDataset of src/src/data_prep2.py: construction (cache hit   *)
(* or build over the sample table), the per-clip decode/resample/assemble  *)
(* loop, packing, caching, and the two read operations __getitem__ and     *)
(* getById.  The earlier class of src/src/data_prep.py is the second       *)
(* specification, SpecV1.                                                  *)
(*                                                                         *)
(* Abstractions.  A decoded frame is <<id, k>>: frame k (from 0) of the    *)
(* video file of clip id; pixel values, H, W and C are not modelled, so a  *)
(* video tensor is the sequence of its frames along the temporal axis.     *)
(* A Python Optional is a sequence of length 0 (None) or 1.                *)
(***************************************************************************)
EXTENDS Integers, Sequences, FiniteSets, TLC

\* ---------------------------------------------------------------- bounds
MaxRows == 2
MaxFrames == 4
VideoIds == {1, 2}
\* (object phrase length, action phrase length) of a row
PhraseLens == {<<1, 1>>, <<2, 1>>, <<1, 2>>}
Transforms == {"identity", "reverse"}
\* depth D = video_shape[0], step and mode: steps that divide D and one that
\* does not
Configs ==
    {[D |-> 2, step |-> 1, mode |-> "toy"],
     [D |-> 2, step |-> 2, mode |-> "simple"],
     [D |-> 3, step |-> 2, mode |-> "toy"]}

VARIABLES
    df,         \* self.df: the sample table, a sequence of rows
    clips,      \* the video folder: id -> frame count the container reports
    cfg,        \* constructor arguments: D (video_shape[0]), step, mode
    transform,  \* self.transform
    cache,      \* the cache artifact cache/<stem>.db
    pc,         \* position of the constructor / state of the instance
    data,       \* self.data: 'major' and 'minor'
    i2i,        \* self._i2i
    loc,        \* locals of _prepareDatabase
    handles,    \* decoder handles (cv2.VideoCapture) currently open
    reported,   \* what 'No of corrupted videos:' printed (Optional)
    err,        \* the exception that ended the last construction, or ""
    call,       \* the last __getitem__ / getById call and its outcome
    hist,       \* history: what the last build saw and did
    max_sen_len \* self.max_sen_len of data_prep.py (Optional: unset or set)

vars == <<df, clips, cfg, transform, cache, pc, data, i2i, loc, handles,
          reported, err, call, hist, max_sen_len>>

\* ----------------------------------------------------------- small helpers
Range(s) == {s[k] : k \in DOMAIN s}

Max(S) == IF S = {} THEN 0 ELSE CHOOSE x \in S : \A y \in S : y <= x

Last(s) == s[Len(s)]

Front(s) == SubSeq(s, 1, Len(s) - 1)

Reverse(s) == [k \in 1..Len(s) |-> s[Len(s) + 1 - k]]

SeqsUpTo(S, n) == UNION {[1..k -> S] : k \in 1..n}

\* a dict assignment that keeps the value of a key already present
DictSetDefault(d, key, val) ==
    [x \in (DOMAIN d) \cup {key} |-> IF x \in DOMAIN d THEN d[x] ELSE val]

\* dict assignment d[key] = val
DictSet(d, key, val) ==
    [x \in (DOMAIN d) \cup {key} |-> IF x = key THEN val ELSE d[x]]

\* dict.get(key): None when the key is absent
DictGet(d, key) == IF key \in DOMAIN d THEN <<d[key]>> ELSE <<>>

\* ------------------------------------------------- the text collaborator
\* The sample table and the vocabulary come from TextProcessor
\* (text_processing2, outside the sources held here).

\* Tokens of a phrase: <<kind, clip id, position>>
Phrase(kind, id, n) == [k \in 1..n |-> <<kind, id, k>>]

\* One row of the table: sample.id and sample[1:4] = lbl, obj, act.  The
\* label is the object phrase followed by the action phrase, the two
\* sharing their boundary token.
MkRow(id, objLen, actLen) ==
    [id  |-> id,
     lbl |-> Phrase("obj", id, objLen) \o Tail(Phrase("act", id, actLen)),
     obj |-> Phrase("obj", id, objLen),
     act |-> Phrase("act", id, actLen)]

Rows == {MkRow(id, n[1], n[2]) : id \in VideoIds, n \in PhraseLens}

Words(table) ==
    UNION {Range(table[r].obj) \cup Range(table[r].act) : r \in DOMAIN table}

\* token -> positive integer; 0 is left for padding
TokenIndex(w) == 10 * w[2] + w[3] + (IF w[1] = "act" THEN 5 ELSE 0)

\* self.t2i over the words `known`
Vocabulary(known) == [w \in known |-> TokenIndex(w)]

\* The vocabularies self.t2i may be: complete, or lacking the last action
\* word of one row.  `seen` are the rows whose words were already looked up
\* without a KeyError.
Vocabularies(table, seen) ==
    {Vocabulary(Words(table))} \cup
    {Vocabulary(Words(table) \ {Last(table[r].act)}) :
        r \in {q \in DOMAIN table :
                 \A a \in seen : Last(table[q].act) \notin Range(table[a].act)}}

\* self._max_len: the longest label of the table
MaxLen(table) == Max({Len(table[r].lbl) : r \in DOMAIN table})

\* self._act_max_len: the longest action phrase of the table
ActMaxLen(table) == Max({Len(table[r].act) : r \in DOMAIN table})

\* -------------------------------------------------------- pure functions
\* self.transform(video)
ApplyTransform(t, video) == IF t = "identity" THEN video ELSE Reverse(video)

\* numerated = np.zeros(max_len); numerated[:len(filling)] = filling
ZeroPad(filling, max_len) ==
    [k \in 1..max_len |-> IF k <= Len(filling) THEN filling[k] ELSE 0]

\* the width sen2vec pads to in the padded modes (line 83)
PadWidth(mode, max_len, act_max_len) ==
    IF mode = "action" THEN max_len ELSE act_max_len

\* sen2vec(sen, mode): [raised, val]
sen2vec(sen, mode, vocab, max_len, act_max_len) ==
    IF mode = "toy"
    THEN IF sen[1] \in DOMAIN vocab
         THEN [raised |-> "", val |-> vocab[sen[1]]]
         ELSE [raised |-> "KeyError", val |-> 0]
    ELSE IF \E k \in DOMAIN sen : sen[k] \notin DOMAIN vocab
    THEN [raised |-> "KeyError", val |-> 0]
    ELSE LET filling == [k \in DOMAIN sen |-> vocab[sen[k]]]
             width == PadWidth(mode, max_len, act_max_len)
         IN IF mode = "simple"
            THEN [raised |-> "", val |-> filling]
            ELSE IF Len(filling) > width
            THEN [raised |-> "ValueError", val |-> 0]
            ELSE [raised |-> "", val |-> ZeroPad(filling, width)]

\* frames[:, ::stride] along the temporal axis
Resample(frames, stride) ==
    [k \in 1..((Len(frames) + stride - 1) \div stride) |-> frames[(k - 1) * stride + 1]]

\* The while loop of _extractFrames on the stream of clip `id`, whose decoder
\* delivers `avail` frames before read() fails.
RECURSIVE ReadLoop(_, _, _, _, _, _)
ReadLoop(id, avail, length, frames, CNT, reads) ==
    IF CNT < length
    THEN IF CNT < avail
         THEN ReadLoop(id, avail, length, Append(frames, <<id, CNT>>), CNT + 1, reads + 1)
         ELSE [frames |-> frames, CNT |-> CNT, reads |-> reads + 1]
    ELSE [frames |-> frames, CNT |-> CNT, reads |-> reads]

\* numpy's assignment of a value of length n to a field of length width:
\* equal lengths, or a length of 1 broadcast over the field
Broadcastable(n, width) == n = width \/ n = 1

Broadcast(vec, width) ==
    [k \in 1..width |-> IF Len(vec) = 1 THEN vec[1] ELSE vec[k]]

\* field shapes of the packed 'major' array (lines 119-120): the label width
\* and the temporal dimension of the video
MajorLabelWidth(max_len) == max_len

MajorVideoDepth(D, step) == D \div step

\* field shape of the packed 'minor' action field (line 123)
MinorActionWidth(act_max_len) == act_max_len

MajorPackable(rec, width, depth) ==
    Broadcastable(Len(rec[1]), width) /\ Broadcastable(Len(rec[3]), depth)

MinorPackable(rec, width) == Broadcastable(Len(rec[2]), width)

PackMajor(major, width, depth) ==
    [k \in DOMAIN major |->
        <<Broadcast(major[k][1], width), major[k][2], Broadcast(major[k][3], depth)>>]

PackMinor(minor, width) ==
    [k \in DOMAIN minor |-> <<minor[k][1], Broadcast(minor[k][2], width), minor[k][3]>>]

\* ------------------------------------------------------------ the cache
\* pickle.dump(self.data, fp); pickle.dump(self._i2i, fp): the objects of the
\* file, in the order written
DumpCache(d, index) == <<d, index>>

\* a load that reads the records and leaves the index map empty
LoadCacheNoIndex(objs) == [data |-> objs[1], i2i |-> <<>>]

\* self.data = pickle.load(fp); self._i2i = pickle.load(fp): the objects are
\* read back in file order
LoadCache(objs) == [data |-> objs[1], i2i |-> objs[2]]

\* ---------------------------------------------------------------- state
NoCall == [op |-> "", args |-> <<>>, raised |-> "", ret |-> <<>>]

\* D, H, W, C = self._video_shape; new_index, corrupted, mult = 0, 0, []
FreshLocals ==
    [old_index |-> 0, new_index |-> 0, corrupted |-> 0, mult |-> <<>>,
     ViCap |-> <<>>, _D |-> 0, frames |-> <<>>, CNT |-> 0]

\* history of one construction: captures opened, rows whose stream was read,
\* rows whose decode ended early; loaded tells a cache hit
FreshHistory(h) ==
    [h EXCEPT !.opened = 0, !.reads = {}, !.truncated = {}, !.loaded = FALSE]

IdsOf(table) == {table[r].id : r \in DOMAIN table}

\* Ids are names: a table is taken with its ids numbered in order of first
\* appearance.
Canonical(table) ==
    \A r \in DOMAIN table :
        table[r].id <= 1 + Max({table[q].id : q \in 1..(r - 1)})

Tables == {t \in SeqsUpTo(Rows, MaxRows) : Canonical(t)}

\* Spec section 8, scenario 7: native frame counts [10, 40, 3], depth 4, step 1
ScenarioInit ==
    /\ df = <<MkRow(1, 1, 1), MkRow(2, 1, 1), MkRow(3, 1, 1)>>
    /\ clips = (1 :> 10) @@ (2 :> 40) @@ (3 :> 3)
    /\ cfg = [D |-> 4, step |-> 1, mode |-> "toy"]
    /\ transform = "identity"

BoundedInit ==
    /\ df \in Tables
    /\ clips \in [IdsOf(df) -> 1..MaxFrames]
    /\ cfg \in Configs
    /\ transform \in Transforms

Init ==
    /\ (BoundedInit \/ ScenarioInit)
    /\ cache = [exists |-> FALSE, objs |-> <<>>]
    /\ pc = "new"
    /\ data = [major |-> <<>>, minor |-> <<>>]
    /\ i2i = <<>>
    /\ loc = FreshLocals
    /\ handles = {}
    /\ reported = <<>>
    /\ err = ""
    /\ call = NoCall
    /\ hist = [opened |-> 0, reads |-> {}, truncated |-> {}, rowOf |-> <<>>,
               loaded |-> FALSE, snapshot |-> <<>>]
    /\ max_sen_len = <<>>

inputs == <<df, clips, cfg, transform>>

\* ------------------------------------------------------- record assembly
\* an assembly whose label length is the plain sum of the two phrase lengths
ProcessSampleNoOverlap(frames, sample, mode, vocab, max_len, act_max_len) ==
    LET lbl == sample.lbl
        obj == sample.obj
        act == sample.act
        obj_len == Len(obj)
        act_len == Len(act)
        lbl_len == act_len + obj_len
        obj_vec == sen2vec(obj, mode, vocab, max_len, act_max_len)
        act_vec == sen2vec(act, "action", vocab, max_len, act_max_len)
        lbl_vec == sen2vec(lbl, "label", vocab, max_len, act_max_len)
        raised == IF obj_vec.raised # "" THEN obj_vec.raised
                  ELSE IF act_vec.raised # "" THEN act_vec.raised
                  ELSE lbl_vec.raised
    IN [raised |-> raised,
        minor |-> <<obj_vec.val, act_vec.val, act_len>>,
        major |-> <<lbl_vec.val, lbl_len, frames>>]

\* _processSample(frames, sample): the records it appends, or the exception
\* of the first sen2vec that raises
ProcessSample(frames, sample, mode, vocab, max_len, act_max_len) ==
    LET lbl == sample.lbl
        obj == sample.obj
        act == sample.act
        obj_len == Len(obj)
        act_len == Len(act)
        lbl_len == act_len + obj_len - 1
        obj_vec == sen2vec(obj, mode, vocab, max_len, act_max_len)
        act_vec == sen2vec(act, "action", vocab, max_len, act_max_len)
        lbl_vec == sen2vec(lbl, "label", vocab, max_len, act_max_len)
        raised == IF obj_vec.raised # "" THEN obj_vec.raised
                  ELSE IF act_vec.raised # "" THEN act_vec.raised
                  ELSE lbl_vec.raised
    IN [raised |-> raised,
        minor |-> <<obj_vec.val, act_vec.val, act_len>>,
        major |-> <<lbl_vec.val, lbl_len, frames>>]

\* ------------------------------------------------------- read operations
\* __getitem__(index)
GetItemResult(d, index, t) ==
    IF index >= Len(d.minor) \/ index >= Len(d.major)
    THEN [raised |-> "IndexError", ret |-> <<>>]
    ELSE LET mj == d.major[index + 1]
             mn == d.minor[index + 1]
         IN [raised |-> "",
             ret |-> <<[major |-> [label |-> mj[1], lbllen |-> mj[2],
                                   video |-> ApplyTransform(t, mj[3])],
                        minor |-> [object |-> mn[1], action |-> mn[2],
                                   actlen |-> mn[3]]]>>]

\* a lookup with position 0 as the default of a missing id
LookupIdsDefault(index, video_ids) ==
    [k \in DOMAIN video_ids |->
        IF video_ids[k] \in DOMAIN index THEN <<index[video_ids[k]]>> ELSE <<0>>]

\* ids = list(map(self._i2i.get, video_ids))
LookupIds(index, video_ids) ==
    [k \in DOMAIN video_ids |-> DictGet(index, video_ids[k])]

\* a gather that returns the elements in storage order
TakeSorted(arr, ids) ==
    IF \E k \in DOMAIN ids : ids[k] = <<>>
    THEN [raised |-> "TypeError", val |-> <<>>]
    ELSE IF \E k \in DOMAIN ids : ids[k][1] >= Len(arr)
    THEN [raised |-> "IndexError", val |-> <<>>]
    ELSE LET sorted == SortSeq(ids, LAMBDA a, b : a[1] < b[1])
         IN [raised |-> "", val |-> [k \in DOMAIN ids |-> arr[sorted[k][1] + 1]]]

\* np.take(arr, ids): the elements at the positions ids, in the order of ids;
\* None among the positions cannot be cast to an integer index
Take(arr, ids) ==
    IF \E k \in DOMAIN ids : ids[k] = <<>>
    THEN [raised |-> "TypeError", val |-> <<>>]
    ELSE IF \E k \in DOMAIN ids : ids[k][1] >= Len(arr)
    THEN [raised |-> "IndexError", val |-> <<>>]
    ELSE [raised |-> "", val |-> [k \in DOMAIN ids |-> arr[ids[k][1] + 1]]]

\* getById(video_ids)
GetByIdResult(d, index, video_ids) ==
    LET ids == LookupIds(index, video_ids)
        selected_major == Take(d.major, ids)
        selected_minor == Take(d.minor, ids)
    IN IF selected_major.raised # ""
       THEN [raised |-> selected_major.raised, ret |-> <<>>]
       ELSE IF selected_minor.raised # ""
       THEN [raised |-> selected_minor.raised, ret |-> <<>>]
       ELSE [raised |-> "",
             ret |-> <<[major |-> selected_major.val, minor |-> selected_minor.val]>>]

\* ---------------------------------------------------------------- actions
\* __init__, the cache artifact exists (lines 19-31)
ConstructFromCache ==
    /\ pc \in {"new", "ready", "failed"}
    /\ call = NoCall
    /\ cache.exists
    /\ data' = LoadCache(cache.objs).data
    /\ i2i' = LoadCache(cache.objs).i2i
    /\ pc' = "ready"
    /\ loc' = FreshLocals
    /\ hist' = [FreshHistory(hist) EXCEPT !.loaded = TRUE]
    /\ reported' = <<>>
    /\ err' = ""
    /\ call' = NoCall
    /\ UNCHANGED <<inputs, max_sen_len, cache, handles>>

\* __init__, no cache artifact: the build starts (lines 19-36, 93-96)
ConstructBuild ==
    /\ pc \in {"new", "ready", "failed"}
    /\ call = NoCall
    /\ ~cache.exists
    /\ i2i' = <<>>
    /\ data' = [major |-> <<>>, minor |-> <<>>]
    /\ pc' = "loop"
    /\ loc' = FreshLocals
    /\ hist' = [FreshHistory(hist) EXCEPT !.rowOf = <<>>]
    /\ reported' = <<>>
    /\ err' = ""
    /\ call' = NoCall
    /\ UNCHANGED <<inputs, max_sen_len, cache, handles>>

\* a VideoCapture object that loses its last reference is finalised, which
\* closes its decoder
Finalised(ref) == IF ref = <<>> THEN {} ELSE {ref[1]}

\* for old_index, sample in pbar: cv2.VideoCapture(str(video)) opens the
\* decoder of the row's clip (lines 98-100).  A handle is named by the
\* position of its row.
OpenClip ==
    /\ pc = "loop"
    /\ loc.old_index < Len(df)
    /\ loc' = [loc EXCEPT !.old_index = @ + 1]
    /\ handles' = handles \cup {loc.old_index + 1}
    /\ hist' = [hist EXCEPT !.opened = @ + 1]
    /\ pc' = "opened"
    /\ UNCHANGED <<inputs, max_sen_len, cache, data, i2i, reported, err, call>>

\* ViCap = <the new capture>: the name leaves the capture of the row before;
\* _D = ViCap.get(cv2.CAP_PROP_FRAME_COUNT) (lines 100-101)
BindCapture ==
    /\ pc = "opened"
    /\ loc' = [loc EXCEPT !.ViCap = <<loc.old_index>>,
                          !._D = clips[df[loc.old_index].id]]
    /\ handles' = handles \ Finalised(loc.ViCap)
    /\ pc' = "check"
    /\ UNCHANGED <<inputs, max_sen_len, cache, data, i2i, reported, err, call, hist>>

\* a skip that counts the short clip as corrupted
SkipShortCounted ==
    /\ pc = "check"
    /\ loc._D < cfg.D
    /\ loc' = [loc EXCEPT !.corrupted = @ + 1]
    /\ pc' = "loop"
    /\ UNCHANGED <<inputs, max_sen_len, cache, data, i2i, handles, reported, err, call, hist>>

\* a skip taken after the multiplier was appended (lines 102 and 104 in
\* the other order)
SkipShortAfterAppend ==
    /\ pc = "check"
    /\ loc._D < cfg.D
    /\ loc' = [loc EXCEPT !.mult = Append(@, loc._D \div cfg.D)]
    /\ pc' = "loop"
    /\ UNCHANGED <<inputs, max_sen_len, cache, data, i2i, handles, reported, err, call, hist>>

\* if int(_D) < D: continue (line 102)
SkipShort ==
    /\ pc = "check"
    /\ loc._D < cfg.D
    /\ pc' = "loop"
    /\ UNCHANGED <<inputs, max_sen_len, cache, data, i2i, loc, handles, reported, err,
                   call, hist>>

\* mult.append(int(_D) // D) (line 104)
PlanClip ==
    /\ pc = "check"
    /\ ~(loc._D < cfg.D)
    /\ loc' = [loc EXCEPT !.mult = Append(@, loc._D \div cfg.D)]
    /\ pc' = "extract"
    /\ UNCHANGED <<inputs, max_sen_len, cache, data, i2i, handles, reported, err, call,
                   hist>>

\* what the decoder may deliver of the `length` frames asked for, whatever
\* the container reported: all of them, all but one, or none
Deliverable(length) == {length, length - 1, 0}

\* frames, CNT = self._extractFrames(ViCap, D*mult[-1]) (lines 105, 125-147)
ExtractFrames ==
    /\ pc = "extract"
    /\ \E avail \in Deliverable(cfg.D * Last(loc.mult)) :
          LET h == loc.ViCap[1]
              length == cfg.D * Last(loc.mult)
              r == ReadLoop(df[h].id, avail, length, <<>>, 0, 0)
          IN /\ loc' = [loc EXCEPT !.frames = r.frames, !.CNT = r.CNT]
             /\ handles' = handles \ {h}
             /\ hist' = [hist EXCEPT
                   !.reads = IF r.reads > 0 THEN @ \cup {h} ELSE @,
                   !.truncated = IF r.CNT < length THEN @ \cup {h} ELSE @]
    /\ pc' = "decide"
    /\ UNCHANGED <<inputs, max_sen_len, cache, data, i2i, reported, err, call>>

\* the sample assembled from the frames of an accepted clip (lines 107-109)
Assembled(vocab) ==
    ProcessSample(Resample(loc.frames, cfg.step * Last(loc.mult)),
                  df[loc.old_index], cfg.mode, vocab, MaxLen(df), ActMaxLen(df))

\* if CNT == D * mult[-1]: ... new_index += 1 (lines 106-111, 149-164)
AcceptClip ==
    /\ pc = "decide"
    /\ loc.CNT = cfg.D * Last(loc.mult)
    /\ \E vocab \in Vocabularies(df, Range(hist.rowOf)) :
          /\ Assembled(vocab).raised = ""
          /\ data' = [major |-> Append(data.major, Assembled(vocab).major),
                      minor |-> Append(data.minor, Assembled(vocab).minor)]
    /\ i2i' = DictSet(i2i, df[loc.old_index].id, loc.new_index)
    /\ loc' = [loc EXCEPT !.new_index = @ + 1, !.frames = <<>>, !.CNT = 0]
    /\ hist' = [hist EXCEPT !.rowOf = Append(@, loc.old_index)]
    /\ pc' = "loop"
    /\ UNCHANGED <<inputs, max_sen_len, cache, handles, reported, err, call>>

\* an exception path that still writes what was accumulated to the cache
ProcessSampleRaisesAndSaves ==
    /\ pc = "decide"
    /\ loc.CNT = cfg.D * Last(loc.mult)
    /\ \E vocab \in Vocabularies(df, Range(hist.rowOf)) :
          /\ Assembled(vocab).raised # ""
          /\ err' = Assembled(vocab).raised
    /\ cache' = [exists |-> TRUE, objs |-> DumpCache(data, i2i)]
    /\ loc' = FreshLocals
    /\ handles' = handles \ Finalised(loc.ViCap)
    /\ pc' = "failed"
    /\ UNCHANGED <<inputs, max_sen_len, data, i2i, reported, call, hist>>

\* sen2vec raises inside _processSample: the exception leaves __init__
ProcessSampleRaises ==
    /\ pc = "decide"
    /\ loc.CNT = cfg.D * Last(loc.mult)
    /\ \E vocab \in Vocabularies(df, Range(hist.rowOf)) :
          /\ Assembled(vocab).raised # ""
          /\ err' = Assembled(vocab).raised
    /\ loc' = FreshLocals
    /\ handles' = handles \ Finalised(loc.ViCap)
    /\ pc' = "failed"
    /\ UNCHANGED <<inputs, max_sen_len, cache, data, i2i, reported, call, hist>>

\* else: corrupted += 1; mult.pop(); self.df.drop(old_index) (lines 112-115).
\* DataFrame.drop returns a new table; its result is not bound to anything.
RejectClip ==
    /\ pc = "decide"
    /\ loc.CNT # cfg.D * Last(loc.mult)
    /\ loc' = [loc EXCEPT !.corrupted = @ + 1, !.mult = Front(@),
                          !.frames = <<>>, !.CNT = 0]
    /\ df' = df
    /\ pc' = "loop"
    /\ UNCHANGED <<clips, cfg, transform, max_sen_len, cache, data, i2i,
                   handles, reported, err, call, hist>>

\* every record fits the packed field shapes (lines 117-123)
AllPackable ==
    /\ \A k \in DOMAIN data.major :
          MajorPackable(data.major[k], MajorLabelWidth(MaxLen(df)),
                        MajorVideoDepth(cfg.D, cfg.step))
    /\ \A k \in DOMAIN data.minor :
          MinorPackable(data.minor[k], MinorActionWidth(ActMaxLen(df)))

\* print('No of corrupted videos:', corrupted); the two np.array packings
\* (lines 116-123); _prepareDatabase returns and its locals are gone
ReportAndPack ==
    /\ pc = "loop"
    /\ loc.old_index = Len(df)
    /\ AllPackable
    /\ reported' = <<loc.corrupted>>
    /\ data' = [major |-> PackMajor(data.major, MajorLabelWidth(MaxLen(df)),
                                    MajorVideoDepth(cfg.D, cfg.step)),
                minor |-> PackMinor(data.minor, MinorActionWidth(ActMaxLen(df)))]
    /\ loc' = FreshLocals
    /\ handles' = handles \ Finalised(loc.ViCap)
    /\ pc' = "save"
    /\ UNCHANGED <<inputs, max_sen_len, cache, i2i, err, call, hist>>

\* np.array raises on a record that does not fit its field
PackRaises ==
    /\ pc = "loop"
    /\ loc.old_index = Len(df)
    /\ ~AllPackable
    /\ reported' = <<loc.corrupted>>
    /\ err' = "ValueError"
    /\ loc' = FreshLocals
    /\ handles' = handles \ Finalised(loc.ViCap)
    /\ pc' = "failed"
    /\ UNCHANGED <<inputs, max_sen_len, cache, data, i2i, call, hist>>

\* the two pickle.dump calls (lines 37-41)
SaveCache ==
    /\ pc = "save"
    /\ cache' = [exists |-> TRUE, objs |-> DumpCache(data, i2i)]
    /\ hist' = [hist EXCEPT !.snapshot = <<[data |-> data, i2i |-> i2i]>>]
    /\ pc' = "ready"
    /\ UNCHANGED <<inputs, max_sen_len, data, i2i, loc, handles, reported, err, call>>

\* dataset[index], for every position and the first one past the end
GetItem ==
    /\ pc = "ready"
    /\ call = NoCall
    /\ \E index \in 0..Len(data.minor) :
          LET r == GetItemResult(data, index, transform)
          IN call' = [op |-> "getitem", args |-> <<index>>,
                      raised |-> r.raised, ret |-> r.ret]
    /\ UNCHANGED <<inputs, max_sen_len, cache, pc, data, i2i, loc, handles, reported, err, hist>>

\* dataset.getById(video_ids)
GetById ==
    /\ pc = "ready"
    /\ call = NoCall
    /\ \E video_ids \in SeqsUpTo(DOMAIN clips \cup VideoIds, 2) :
          LET r == GetByIdResult(data, i2i, video_ids)
          IN call' = [op |-> "getById", args |-> video_ids,
                      raised |-> r.raised, ret |-> r.ret]
    /\ UNCHANGED <<inputs, max_sen_len, cache, pc, data, i2i, loc, handles, reported, err, hist>>

\* the caller is done with the result of the call
Return ==
    /\ pc = "ready"
    /\ call # NoCall
    /\ call' = NoCall
    /\ UNCHANGED <<inputs, max_sen_len, cache, pc, data, i2i, loc, handles, reported, err,
                   hist>>

Next ==
    \/ ConstructFromCache
    \/ ConstructBuild
    \/ OpenClip
    \/ BindCapture
    \/ SkipShort
    \/ PlanClip
    \/ ExtractFrames
    \/ AcceptClip
    \/ ProcessSampleRaises
    \/ RejectClip
    \/ ReportAndPack
    \/ PackRaises
    \/ SaveCache
    \/ GetItem
    \/ GetById
    \/ Return

Spec == Init /\ [][Next]_vars

\* ------------------------------------- LabeledVideoDataset of data_prep.py
\* The earlier dataset class of src/src/data_prep.py: self.data is a list of
\* (numerated, frames) pairs, the whole build is the body of __init__, and
\* the instance carries self.max_sen_len.

\* mult = []; corrupted = 0 (lines 36-37); `row` is the position of the
\* iterator over df.iterrows()
V1Locals ==
    [row |-> 0, corrupted |-> 0, mult |-> <<>>, ViCap |-> <<>>, _D |-> 0,
     frames |-> <<>>, CNT |-> 0]

\* sen2vec(sample['label'], t2i, max_len) of text_processing: the indexes of
\* the label's tokens, zero-padded to max_len
sen2vecV1(sen, max_len) ==
    ZeroPad([k \in DOMAIN sen |-> TokenIndex(sen[k])], max_len)

\* __getitem__(index) (lines 83-87)
V1GetItemResult(d, index, t) ==
    IF index >= Len(d)
    THEN [raised |-> "IndexError", ret |-> <<>>]
    ELSE [raised |-> "",
          ret |-> <<[label |-> d[index + 1][1],
                     video |-> ApplyTransform(t, d[index + 1][2])]>>]

\* __init__, the cache artifact exists: self.data = pickle.load(fp) is the
\* only attribute besides self.transform the new instance gets (lines 18-26)
V1ConstructFromCache ==
    /\ pc \in {"new", "ready"}
    /\ call = NoCall
    /\ cache.exists
    /\ data' = cache.objs[1]
    /\ max_sen_len' = <<>>
    /\ pc' = "ready"
    /\ loc' = V1Locals
    /\ hist' = [FreshHistory(hist) EXCEPT !.loaded = TRUE]
    /\ reported' = <<>>
    /\ UNCHANGED <<inputs, cache, i2i, handles, err, call>>

\* __init__, no cache artifact: self.data = [], doTextPart, the locals of
\* the loop (lines 27-41)
V1ConstructBuild ==
    /\ pc \in {"new", "ready"}
    /\ call = NoCall
    /\ ~cache.exists
    /\ data' = <<>>
    /\ max_sen_len' = <<>>
    /\ pc' = "loop"
    /\ loc' = V1Locals
    /\ hist' = [FreshHistory(hist) EXCEPT !.rowOf = <<>>]
    /\ reported' = <<>>
    /\ UNCHANGED <<inputs, cache, i2i, handles, err, call>>

\* for _, sample in pbar: cv2.VideoCapture(str(video)) (lines 42-44)
V1OpenClip ==
    /\ pc = "loop"
    /\ loc.row < Len(df)
    /\ loc' = [loc EXCEPT !.row = @ + 1]
    /\ handles' = handles \cup {loc.row + 1}
    /\ hist' = [hist EXCEPT !.opened = @ + 1]
    /\ pc' = "opened"
    /\ UNCHANGED <<inputs, max_sen_len, cache, data, i2i, reported, err, call>>

\* ViCap = <the new capture>; _D = ViCap.get(cv2.CAP_PROP_FRAME_COUNT)
\* (lines 44-45)
V1BindCapture ==
    /\ pc = "opened"
    /\ loc' = [loc EXCEPT !.ViCap = <<loc.row>>, !._D = clips[df[loc.row].id]]
    /\ handles' = handles \ Finalised(loc.ViCap)
    /\ pc' = "check"
    /\ UNCHANGED <<inputs, max_sen_len, cache, data, i2i, reported, err, call,
                   hist>>

\* if int(_D) < D: continue (line 47)
V1SkipShort ==
    /\ pc = "check"
    /\ loc._D < cfg.D
    /\ pc' = "loop"
    /\ UNCHANGED <<inputs, max_sen_len, cache, data, i2i, loc, handles,
                   reported, err, call, hist>>

\* mult.append(int(_D) // D) (line 48)
V1PlanClip ==
    /\ pc = "check"
    /\ ~(loc._D < cfg.D)
    /\ loc' = [loc EXCEPT !.mult = Append(@, loc._D \div cfg.D)]
    /\ pc' = "extract"
    /\ UNCHANGED <<inputs, max_sen_len, cache, data, i2i, handles, reported,
                   err, call, hist>>

\* the read loop and ViCap.release() (lines 50-63)
V1ReadFrames ==
    /\ pc = "extract"
    /\ \E avail \in Deliverable(cfg.D * Last(loc.mult)) :
          LET h == loc.ViCap[1]
              length == cfg.D * Last(loc.mult)
              r == ReadLoop(df[h].id, avail, length, <<>>, 0, 0)
          IN /\ loc' = [loc EXCEPT !.frames = r.frames, !.CNT = r.CNT]
             /\ handles' = handles \ {h}
             /\ hist' = [hist EXCEPT
                   !.reads = IF r.reads > 0 THEN @ \cup {h} ELSE @,
                   !.truncated = IF r.CNT < length THEN @ \cup {h} ELSE @]
    /\ pc' = "decide"
    /\ UNCHANGED <<inputs, max_sen_len, cache, data, i2i, reported, err, call>>

\* if CNT == D * mult[-1]: self.data.append((numerated,
\* frames[::step * mult[-1]])) (lines 65-70)
V1AcceptClip ==
    /\ pc = "decide"
    /\ loc.CNT = cfg.D * Last(loc.mult)
    /\ data' = Append(data,
                 <<sen2vecV1(df[loc.row].lbl, MaxLen(df)),
                   Resample(loc.frames, cfg.step * Last(loc.mult))>>)
    /\ loc' = [loc EXCEPT !.frames = <<>>, !.CNT = 0]
    /\ hist' = [hist EXCEPT !.rowOf = Append(@, loc.row)]
    /\ pc' = "loop"
    /\ UNCHANGED <<inputs, max_sen_len, cache, i2i, handles, reported, err,
                   call>>

\* else: corrupted += 1; mult.pop() (lines 71-73)
V1RejectClip ==
    /\ pc = "decide"
    /\ loc.CNT # cfg.D * Last(loc.mult)
    /\ loc' = [loc EXCEPT !.corrupted = @ + 1, !.mult = Front(@),
                          !.frames = <<>>, !.CNT = 0]
    /\ pc' = "loop"
    /\ UNCHANGED <<inputs, max_sen_len, cache, data, i2i, handles, reported,
                   err, call, hist>>

\* the loop is over: self.max_sen_len = max_len, the print of corrupted and
\* pickle.dump(self.data, fp) (lines 75-81); __init__ returns
V1Finish ==
    /\ pc = "loop"
    /\ loc.row = Len(df)
    /\ max_sen_len' = <<MaxLen(df)>>
    /\ reported' = <<loc.corrupted>>
    /\ cache' = [exists |-> TRUE, objs |-> <<data>>]
    /\ loc' = V1Locals
    /\ handles' = handles \ Finalised(loc.ViCap)
    /\ pc' = "ready"
    /\ UNCHANGED <<inputs, data, i2i, err, call, hist>>

\* dataset[index], for every position and the first one past the end
V1GetItem ==
    /\ pc = "ready"
    /\ call = NoCall
    /\ \E index \in 0..Len(data) :
          LET r == V1GetItemResult(data, index, transform)
          IN call' = [op |-> "getitem", args |-> <<index>>,
                      raised |-> r.raised, ret |-> r.ret]
    /\ UNCHANGED <<inputs, max_sen_len, cache, pc, data, i2i, loc, handles,
                   reported, err, hist>>

\* len(dataset) (lines 89-90)
V1Len ==
    /\ pc = "ready"
    /\ call = NoCall
    /\ call' = [op |-> "len", args |-> <<>>, raised |-> "", ret |-> <<Len(data)>>]
    /\ UNCHANGED <<inputs, max_sen_len, cache, pc, data, i2i, loc, handles,
                   reported, err, hist>>

\* the caller is done with the result of the call
V1Return ==
    /\ pc = "ready"
    /\ call # NoCall
    /\ call' = NoCall
    /\ UNCHANGED <<inputs, max_sen_len, cache, pc, data, i2i, loc, handles,
                   reported, err, hist>>

NextV1 ==
    \/ V1ConstructFromCache
    \/ V1ConstructBuild
    \/ V1OpenClip
    \/ V1BindCapture
    \/ V1SkipShort
    \/ V1PlanClip
    \/ V1ReadFrames
    \/ V1AcceptClip
    \/ V1RejectClip
    \/ V1Finish
    \/ V1GetItem
    \/ V1Len
    \/ V1Return

SpecV1 == Init /\ [][NextV1]_vars

\* ------------------------------------------------------------- properties
\* rows whose clip reports fewer frames than the depth D (ShortClip)
ShortRows == {r \in DOMAIN df : clips[df[r].id] < cfg.D}

\* the corrupted count has been printed: the loop of the build is over
BuildReported == reported # <<>>

\* C1 as stated: when the build has reported, the reported count is the
\* number of ShortClip rows plus the number of TruncatedDecode rows, and
\* accepted + reported = rows of the table.
C1_ReportedCountsShortAndTruncated ==
    BuildReported =>
        /\ reported[1] = Cardinality(ShortRows) + Cardinality(hist.truncated)
        /\ Len(data.major) + reported[1] = Len(df)

\* C1 amended: the reported count is the number of TruncatedDecode rows
\* only; ShortClip rows are skipped without being counted, so accepted +
\* reported + short = rows of the table.
C1_ReportedCountsTruncatedOnly ==
    BuildReported =>
        /\ reported[1] = Cardinality(hist.truncated)
        /\ Len(data.major) + reported[1] + Cardinality(ShortRows) = Len(df)

\* C1 witness: a finished build with one accepted, one truncated and one
\* short clip (the scenario of native counts [10, 40, 3] at depth 4).
C1_Witness ==
    /\ pc = "save"
    /\ cfg.D = 4
    /\ Len(data.major) = 1
    /\ reported = <<1>>
    /\ hist.truncated = {1}
    /\ ShortRows = {3}

\* C2 as stated: every multiplier on the working list is >= 1 and every
\* resampled video held in 'major' has temporal length D // step.
C2_ResampledLengthIsFloor ==
    /\ \A k \in DOMAIN loc.mult : loc.mult[k] >= 1
    /\ \A k \in DOMAIN data.major :
          Len(data.major[k][3]) = MajorVideoDepth(cfg.D, cfg.step)

\* the instance exists: the build has packed its records, or they were loaded
Built == pc \in {"save", "ready"}

\* positions whose record came from a row carrying `id`
PositionsOf(id) == {k \in DOMAIN hist.rowOf : df[hist.rowOf[k]].id = id}

\* major[k] and minor[k] both describe row r of the table
Describes(k, r) ==
    /\ \A f \in DOMAIN data.major[k][3] : data.major[k][3][f][1] = df[r].id
    /\ data.major[k][2] = Len(df[r].obj) + Len(df[r].act) - 1
    /\ data.minor[k][3] = Len(df[r].act)

\* C3 as stated: after the build the three sizes agree, the index map is a
\* bijection from the accepted ids onto the positions 0..len-1, and
\* major[k], minor[k] describe the clip whose id maps to k.
C3_IndexMapIsBijection ==
    Built =>
        /\ Len(data.major) = Len(data.minor)
        /\ Len(data.minor) = Cardinality(DOMAIN i2i)
        /\ {i2i[id] : id \in DOMAIN i2i} = 0..(Len(data.major) - 1)
        /\ \A id \in DOMAIN i2i :
              \E r \in DOMAIN df : df[r].id = id /\ Describes(i2i[id] + 1, r)

\* C3 amended: major and minor have the same length and position k of both
\* describes the k-th accepted row; the index map holds exactly the accepted
\* ids and sends each to the position of the last accepted row carrying it,
\* so it is a bijection onto 0..len-1 when the accepted ids are distinct.
C3_IndexMapPointsAtLastAccepted ==
    Built =>
        /\ Len(data.major) = Len(data.minor)
        /\ Len(data.major) = Len(hist.rowOf)
        /\ \A k \in DOMAIN data.major : Describes(k, hist.rowOf[k])
        /\ DOMAIN i2i = {df[hist.rowOf[k]].id : k \in DOMAIN hist.rowOf}
        /\ \A id \in DOMAIN i2i : i2i[id] + 1 = Max(PositionsOf(id))
        /\ (\A id \in DOMAIN i2i : Cardinality(PositionsOf(id)) = 1) =>
              /\ Cardinality(DOMAIN i2i) = Len(data.major)
              /\ {i2i[id] : id \in DOMAIN i2i} = 0..(Len(data.major) - 1)

\* C3 witness: a loaded dataset of two records whose rows carry the same id.
C3_Witness ==
    /\ pc = "ready"
    /\ hist.loaded
    /\ Len(data.major) = 2
    /\ Cardinality(DOMAIN i2i) = 1

\* C4: a getById call with an id outside the index map raises, returns no
\* result, and leaves the records and the index map as they were.
C4_UnknownIdRaises ==
    [][(call'.op = "getById" /\ \E k \in DOMAIN call'.args : call'.args[k] \notin DOMAIN i2i)
         => (call'.raised = "TypeError" /\ call'.ret = <<>> /\ data' = data /\ i2i' = i2i)]_vars

\* C4 witness: getById was called with a known id followed by an unknown one.
C4_Witness ==
    /\ call.op = "getById"
    /\ Len(call.args) = 2
    /\ call.args[1] \in DOMAIN i2i
    /\ call.args[2] \notin DOMAIN i2i
    /\ call.raised = "TypeError"

\* what __getitem__ returns for the position of a known id
ItemOf(id) == GetItemResult(data, i2i[id], transform).ret[1]

\* C5 as stated: the i-th record getById returns equals, field by field, what
\* __getitem__ returns for position i2i[ids[i]], whatever the transform.
C5_GetByIdEqualsGetItem ==
    (call.op = "getById" /\ call.raised = "") =>
        \A k \in DOMAIN call.args :
            /\ call.ret[1].major[k] =
                  <<ItemOf(call.args[k]).major.label,
                    ItemOf(call.args[k]).major.lbllen,
                    ItemOf(call.args[k]).major.video>>
            /\ call.ret[1].minor[k] =
                  <<ItemOf(call.args[k]).minor.object,
                    ItemOf(call.args[k]).minor.action,
                    ItemOf(call.args[k]).minor.actlen>>

\* C5 amended: the i-th record getById returns is the stored record at
\* position i2i[ids[i]], in the caller's order; its label, label length and
\* minor fields equal those of __getitem__, and its video is the stored video
\* without the transform, equal to the video of __getitem__ when the
\* transform is the identity.
C5_GetByIdReturnsStoredRecords ==
    (call.op = "getById" /\ call.raised = "") =>
        \A k \in DOMAIN call.args :
            /\ call.ret[1].major[k] = data.major[i2i[call.args[k]] + 1]
            /\ call.ret[1].minor[k] = data.minor[i2i[call.args[k]] + 1]
            /\ call.ret[1].major[k][1] = ItemOf(call.args[k]).major.label
            /\ call.ret[1].major[k][2] = ItemOf(call.args[k]).major.lbllen
            /\ ApplyTransform(transform, call.ret[1].major[k][3]) =
                  ItemOf(call.args[k]).major.video
            /\ transform = "identity" =>
                  call.ret[1].major[k][3] = ItemOf(call.args[k]).major.video
            /\ call.ret[1].minor[k] =
                  <<ItemOf(call.args[k]).minor.object,
                    ItemOf(call.args[k]).minor.action,
                    ItemOf(call.args[k]).minor.actlen>>

\* C5 witness: getById returned two records asked for against storage order,
\* under a transform that is not the identity.
C5_Witness ==
    /\ call.op = "getById"
    /\ call.raised = ""
    /\ Len(call.args) = 2
    /\ i2i[call.args[1]] > i2i[call.args[2]]
    /\ transform = "reverse"

\* C6: a construction that finds the cache artifact opens no clip and reads
\* no frame, and its records and index map equal, by value, the in-memory
\* state the building construction held when it persisted them.
C6_CacheHitRestoresPrePersistState ==
    hist.loaded =>
        /\ hist.opened = 0
        /\ hist.reads = {}
        /\ hist.snapshot # <<>>
        /\ data = hist.snapshot[1].data
        /\ i2i = hist.snapshot[1].i2i
        /\ Len(data.minor) = Len(hist.snapshot[1].data.minor)

\* C6 witness: a second construction has loaded a dataset of two records
\* that the first construction extracted.
C6_Witness ==
    /\ hist.loaded
    /\ pc = "ready"
    /\ Len(data.major) = 2
    /\ Cardinality(DOMAIN i2i) = 2

\* C7 as stated: a step that rejects a clip as corrupted removes its
\* multiplier from the working list, adds nothing to the records or the index
\* map, and removes one row from self.df.
C7_RejectionLeavesNoResidue ==
    [][(pc = "decide" /\ loc'.corrupted = loc.corrupted + 1)
         => /\ Len(loc'.mult) = Len(loc.mult) - 1
            /\ data' = data
            /\ i2i' = i2i
            /\ Len(df') = Len(df) - 1]_vars

\* C8 as stated: at most one decoder handle is open at any time, and none is
\* open between two iterations of the loop or once the build is over.
C8_HandlesReleasedOnEveryPath ==
    /\ Cardinality(handles) <= 1
    /\ pc \in {"loop", "save", "ready", "failed"} => handles = {}

\* C9 as stated: every label encoding held in 'major' has the width of the
\* packed label field (the global maximum label length) and every action
\* encoding held in 'minor' has the width of the packed action field (the
\* global maximum action length).
C9_EncodingWidthsMatchFields ==
    /\ \A k \in DOMAIN data.major :
          Len(data.major[k][1]) = MajorLabelWidth(MaxLen(df))
    /\ \A k \in DOMAIN data.minor :
          Len(data.minor[k][2]) = MinorActionWidth(ActMaxLen(df))

\* C10: once a construction has ended with a missing vocabulary entry, the
\* instance does not exist and no cache artifact exists, so the next
\* construction builds again; an artifact that exists holds exactly the
\* records and index map of a build that ran to its end.
C10_KeyErrorLeavesNoCache ==
    /\ err = "KeyError" => (pc = "failed" /\ ~cache.exists /\ cache.objs = <<>>)
    /\ cache.exists =>
          /\ hist.snapshot # <<>>
          /\ cache.objs = <<hist.snapshot[1].data, hist.snapshot[1].i2i>>
          /\ Len(hist.snapshot[1].data.major) = Len(hist.rowOf)

\* C10 witness: the build failed with a KeyError after a record was
\* accumulated.
C10_Witness ==
    /\ pc = "failed"
    /\ err = "KeyError"
    /\ Len(data.major) = 1
    /\ ~cache.exists

\* rows the entries of the multiplier list stand for, in order: the accepted
\* rows, and the row being decoded or decided
MultRows ==
    IF pc \in {"extract", "decide"} THEN Append(hist.rowOf, loc.old_index)
    ELSE IF pc \in {"loop", "opened", "check"} THEN hist.rowOf
    ELSE <<>>

\* C11: a clip whose native frame count is below the depth D is skipped
\* before any read on its stream, and nothing of it is kept: no record of
\* 'major' holds a frame of it, no record of 'minor' holds its action, the
\* index map has no entry for its id, and the multiplier list has entries
\* for the accepted rows (and the row in work) only.
C11_ShortClipsLeaveNoTrace ==
    /\ \A r \in ShortRows :
          /\ r \notin hist.reads
          /\ r \notin Range(hist.rowOf)
          /\ \A k \in DOMAIN data.major :
                \A f \in Range(data.major[k][3]) : f[1] # df[r].id
          /\ \A k \in DOMAIN data.minor :
                data.minor[k][2][1] # TokenIndex(df[r].act[1])
          /\ df[r].id \notin DOMAIN i2i
          /\ r \notin Range(MultRows)
    /\ Len(loc.mult) = Len(MultRows)
    /\ \A k \in DOMAIN loc.mult :
          loc.mult[k] = clips[df[MultRows[k]].id] \div cfg.D

\* C11 witness: the loop has passed every row, a short clip among them, and
\* the multiplier list holds the entry of an accepted clip.
C11_Witness ==
    /\ pc = "loop"
    /\ loc.old_index = Len(df)
    /\ ShortRows # {}
    /\ Len(loc.mult) = 1
    /\ Len(data.major) = 1
    /\ hist.opened = Len(df)

\* C12: for every accepted record, the label length stored in 'major' is the
\* action length stored in 'minor' plus the number of tokens of the object
\* phrase of the record's row minus 1, and the stored action length is the
\* number of tokens of the action phrase of that row.
C12_LabelLengthIsActionPlusObjectMinusOne ==
    /\ Len(data.major) = Len(data.minor)
    /\ Len(data.major) = Len(hist.rowOf)
    /\ \A k \in DOMAIN data.major :
          LET sample == df[hist.rowOf[k]]
          IN /\ data.minor[k][3] = Len(sample.act)
             /\ data.major[k][2] = data.minor[k][3] + Len(sample.obj) - 1

\* C12 witness: a finished build holds a record of a row with a two-token
\* object phrase and a record of a row with a two-token action phrase.
C12_Witness ==
    /\ pc = "ready"
    /\ ~hist.loaded
    /\ \E k \in DOMAIN data.major :
          /\ Len(df[hist.rowOf[k]].obj) = 2
          /\ data.major[k][2] = 2
    /\ \E k \in DOMAIN data.major :
          /\ Len(df[hist.rowOf[k]].act) = 2
          /\ data.minor[k][3] = 2

\* C13 as stated (data_prep.py): once a construction has succeeded, whether
\* it built the records or restored them from the cache, max_sen_len is
\* defined and holds the maximum sentence length of the dataset.
C13_MaxSenLenDefinedOnBothPaths ==
    pc = "ready" => max_sen_len = <<MaxLen(df)>>

====
